---- MODULE Spec2Model ----
(***************************************************************************)
(* Model of deepchem/models/tensorflow_models/fcnet.py:                    *)
(*   TensorflowMultiTaskClassifier.build / construct_feed_dict             *)
(*   TensorflowMultiTaskRegressor.build / construct_feed_dict /            *)
(*   predict_on_batch                                                      *)
(*                                                                         *)
(* numpy arrays are records [shape, flat]: the shape tuple and the         *)
(* elements in row-major (C) order.  A 0-d array has shape <<>> and one    *)
(* element.  Floats are modelled by integers.                              *)
(***************************************************************************)
EXTENDS Integers, Sequences, FiniteSets, TLC

\* ---------------------------------------------------------------- bounds
MaxBatch == 2        \* batch_size ranges over 1..MaxBatch
MaxTasks == 2        \* num_tasks ranges over 1..MaxTasks
MaxLayers == 2       \* each per-layer list has 0..MaxLayers entries

\* ------------------------------------------------------ value domains
NumFeatures == 4                 \* data_shape[0] of a well-formed model
LayerSizeVals == {3, 5}          \* entries of layer_sizes
XVals == {1, 2}                  \* the value filling an input batch X
SeedVals == {0, 1}               \* seeds of the y_b / w_b batches

\* ------------------------------------------------------------ numpy
\* Python's None for an optional array argument / an unset array variable
\* (no array has an empty shape together with no element).
None == [shape |-> <<>>, flat |-> <<>>]

Min(a, b) == IF a < b THEN a ELSE b

RECURSIVE Prod(_)
Prod(s) == IF s = <<>> THEN 1 ELSE Head(s) * Prod(Tail(s))

\* a.ndim
ndim(a) == Len(a.shape)

\* np.zeros(shape) / np.ones(shape) / np.ones(shape, dtype=bool)
Full(shape, v) == [shape |-> shape, flat |-> [n \in 1..Prod(shape) |-> v]]
zeros(shape) == Full(shape, 0)
ones(shape) == Full(shape, 1)
ones_bool(shape) == Full(shape, TRUE)

\* row-major offset of a multi-index (0-based), and its inverse
RECURSIVE Ravel(_, _)
Ravel(idx, shape) ==
  IF idx = <<>> THEN 0
  ELSE Head(idx) * Prod(Tail(shape)) + Ravel(Tail(idx), Tail(shape))

RECURSIVE Unravel(_, _)
Unravel(n, shape) ==
  IF shape = <<>> THEN <<>>
  ELSE <<n \div Prod(Tail(shape))>> \o Unravel(n % Prod(Tail(shape)), Tail(shape))

\* a[idx] for a full multi-index (0-based)
At(a, idx) == a.flat[Ravel(idx, a.shape) + 1]

\* the multi-indices of an array of the given shape
Indices(shape) == {Unravel(n, shape) : n \in 0..(Prod(shape) - 1)}

\* np.squeeze(a): every axis of length 1 is dropped, the elements stay
squeeze(a) ==
  [shape |-> SelectSeq(a.shape, LAMBDA d : d # 1), flat |-> a.flat]

\* a[:, task] for a 2-d array
Column(a, task) ==
  [shape |-> <<a.shape[1]>>,
   flat |-> [b \in 1..a.shape[1] |-> At(a, <<b - 1, task>>)]]

\* a slip for transpose: the shape is permuted but the elements are not moved
\* (what a.reshape would do)
transpose_as_reshape(a, perm) ==
  [shape |-> [k \in 1..Len(perm) |-> a.shape[perm[k] + 1]], flat |-> a.flat]

\* a.transpose(perm): axis k of the result is axis perm[k] of a
transpose(a, perm) ==
  LET newshape == [k \in 1..Len(perm) |-> a.shape[perm[k] + 1]]
      Old(nidx) == [j \in 1..Len(perm) |->
                      nidx[CHOOSE k \in 1..Len(perm) : perm[k] = j - 1]]
  IN [shape |-> newshape,
      flat |-> [n \in 1..Prod(newshape) |->
                  At(a, Old(Unravel(n - 1, newshape)))]]

\* numpy raises ValueError ("axes don't match array") otherwise
TransposeOK(a, perm) == Len(perm) = ndim(a)

\* seq[lo:hi] (Python slice, clipped to the sequence)
Slice(seq, lo, hi) == SubSeq(seq, lo + 1, Min(hi, Len(seq)))

RECURSIVE ConcatFlat(_)
ConcatFlat(list) ==
  IF list = <<>> THEN <<>> ELSE Head(list).flat \o ConcatFlat(Tail(list))

\* np.asarray(list, dtype=float) needs entries of one shape (ValueError otherwise)
Homogeneous(list) == \A m, n \in 1..Len(list) : list[m].shape = list[n].shape

asarray(list) ==
  [shape |-> <<Len(list)>> \o (IF list = <<>> THEN <<>> ELSE list[1].shape),
   flat |-> ConcatFlat(list)]

RECURSIVE SumRows(_)
SumRows(list) ==
  IF list = <<>> THEN 0 ELSE Head(list).shape[1] + SumRows(Tail(list))

\* np.concatenate(list) along axis 0
concatenate(list) ==
  [shape |-> <<SumRows(list)>> \o Tail(list[1].shape),
   flat |-> ConcatFlat(list)]

\* np.count_nonzero(~valid)
count_nonzero_not(valid) ==
  Cardinality({n \in 1..Len(valid.flat) : ~valid.flat[n]})

\* a[valid]: the rows of a whose mask entry is true
BoolIndex(a, valid) ==
  LET rowsize == Prod(Tail(a.shape))
      keep == SelectSeq([r \in 1..a.shape[1] |-> r], LAMBDA r : valid.flat[r])
  IN [shape |-> <<Len(keep)>> \o Tail(a.shape),
      flat |-> [n \in 1..(Len(keep) * rowsize) |->
                  a.flat[(keep[((n - 1) \div rowsize) + 1] - 1) * rowsize
                         + ((n - 1) % rowsize) + 1]]]

\* deepchem.metrics.to_one_hot(y) for a 1-d y: one row of two classes per entry
to_one_hot(y) ==
  [shape |-> <<y.shape[1], 2>>,
   flat |-> [n \in 1..(2 * y.shape[1]) |->
               LET val == y.flat[((n - 1) \div 2) + 1]
                   c == (n - 1) % 2
               IN IF val = c THEN 1 ELSE 0]]

\* ------------------------------------------------------------ state
VARIABLES
  \* the model object: its class, model_params, num_tasks, the graph's
  \* training flag (model_ops.is_training()) and _restored_model
  kind, model_params, num_tasks, training, restored_model,
  \* build(): position, the mol_features placeholder's shape, the hidden
  \* layers added so far, the locals prev_layer, prev_layer_size, layer, i,
  \* num_layers, self.output and the exception raised
  bpc, mol_features, layers, prev_layer, prev_layer_size, layer, i,
  num_layers, self_output, build_error,
  \* predict_on_batch(X): position, the argument, the locals and the outcome
  pc, X, feed_dict, data, batch_output, batch_labels, batch_weights,
  output, labels, weights, result, error,
  \* history of the current predict_on_batch call: _restored_model on entry
  \* and the calls made so far (restore, construct_feed_dict, run)
  entry_restored, trace,
  \* the last direct construct_feed_dict call: its arguments and its result
  fd_args, fd_out

configVars == <<kind, model_params, num_tasks, training>>
buildVars == <<bpc, mol_features, layers, prev_layer, prev_layer_size, layer,
               i, num_layers, self_output, build_error>>
predictVars == <<pc, X, feed_dict, data, batch_output, batch_labels,
                 batch_weights, output, labels, weights, result, error,
                 entry_restored, trace>>
feedVars == <<fd_args, fd_out>>
vars == <<configVars, restored_model, buildVars, predictVars, feedVars>>

\* a graph tensor: mol_features, the output of hidden layer index, ...
Tensor(name, index) == [name |-> name, index |-> index]
NoTensor == Tensor("unset", -1)

\* a feed-dict key: "mol_features", "valid", "labels_%d" % task, "weights_%d" % task
Key(name, task) == [name |-> name, task |-> task]
EmptyDict == [k \in {} |-> None]

batch_size == model_params.batch_size

\* ------------------------------------------------------------ build
\* assert len(self.model_params["data_shape"]) == 1
DataShapeOK == Len(model_params.data_shape) = 1

\* the set of the four per-layer lists' lengths
lengths_set ==
  {Len(model_params.layer_sizes), Len(model_params.weight_init_stddevs),
   Len(model_params.bias_init_consts), Len(model_params.dropouts)}

\* assert len(lengths_set) == 1, 'All layer params must have same length.'
LengthsOK == Cardinality(lengths_set) = 1

\* a slip in the assertion below: an empty configuration is let through
NumLayersOK_off_by_one(n) == n >= 0

\* assert num_layers > 0, 'Must have some layers defined.'
NumLayersOK(n) == n > 0

\* lines 80-88 / 161-169: the data_shape assertion, then the placeholder
BuildPlaceholder ==
  /\ bpc = "start"
  /\ IF DataShapeOK
       THEN /\ mol_features' = <<batch_size, model_params.data_shape[1]>>
            /\ bpc' = "params"
            /\ build_error' = build_error
       ELSE /\ build_error' = "AssertionError"
            /\ bpc' = "failed"
            /\ mol_features' = mol_features
  /\ UNCHANGED <<layers, prev_layer, prev_layer_size, layer, i, num_layers,
                 self_output>>
  /\ UNCHANGED <<configVars, restored_model, predictVars, feedVars>>

\* lines 90-105 / 171-186: the two assertions on the per-layer lists, then
\* prev_layer and prev_layer_size are set for the loop
BuildCheckParams ==
  /\ bpc = "params"
  /\ IF LengthsOK /\ NumLayersOK(CHOOSE n \in lengths_set : TRUE)
       THEN /\ num_layers' = (CHOOSE n \in lengths_set : TRUE)
            /\ prev_layer' = Tensor("mol_features", -1)
            /\ prev_layer_size' = mol_features[2]
            /\ bpc' = "loop"
            /\ build_error' = build_error
       ELSE /\ build_error' = "AssertionError"
            /\ bpc' = "failed"
            /\ UNCHANGED <<num_layers, prev_layer, prev_layer_size>>
  /\ UNCHANGED <<mol_features, layers, layer, i, self_output>>
  /\ UNCHANGED <<configVars, restored_model, predictVars, feedVars>>

\* a slip in the loop below: every weight matrix is sized from num_features,
\* as if prev_layer_size were never advanced
HiddenLayer_stale_size(idx, tensor, in_size) ==
  [tensor |-> tensor,
   size |-> model_params.layer_sizes[idx + 1],
   weight_shape |-> <<model_params.data_shape[1],
                      model_params.layer_sizes[idx + 1]>>,
   stddev |-> model_params.weight_init_stddevs[idx + 1],
   bias_value |-> model_params.bias_init_consts[idx + 1],
   bias_shape |-> <<model_params.layer_sizes[idx + 1]>>,
   ops |-> <<"FullyConnectedLayer", "relu", "Dropout">>,
   dropout |-> model_params.dropouts[idx + 1]]

\* the hidden layer made by one iteration of the loop (lines 107-115 / 188-196)
HiddenLayer(idx, tensor, in_size) ==
  [tensor |-> tensor,
   size |-> model_params.layer_sizes[idx + 1],
   weight_shape |-> <<in_size, model_params.layer_sizes[idx + 1]>>,
   stddev |-> model_params.weight_init_stddevs[idx + 1],
   bias_value |-> model_params.bias_init_consts[idx + 1],
   bias_shape |-> <<model_params.layer_sizes[idx + 1]>>,
   ops |-> <<"FullyConnectedLayer", "relu", "Dropout">>,
   dropout |-> model_params.dropouts[idx + 1]]

\* lines 106-117 / 187-198: one iteration of  for i in xrange(num_layers)
BuildLayer ==
  /\ bpc = "loop"
  /\ i + 1 < num_layers
  /\ i' = i + 1
  /\ layers' = Append(layers, HiddenLayer(i', prev_layer, prev_layer_size))
  /\ layer' = Tensor("layer", i')
  /\ prev_layer' = layer'
  /\ prev_layer_size' = model_params.layer_sizes[i' + 1]
  /\ UNCHANGED <<bpc, mol_features, num_layers, self_output, build_error>>
  /\ UNCHANGED <<configVars, restored_model, predictVars, feedVars>>

\* model_ops.MultitaskLogits(layer, num_tasks): one logits tensor of two
\* classes per task
MultitaskLogits(tensor, n) ==
  [t \in 1..n |-> [name |-> "output", index |-> t - 1, tensor |-> tensor,
                   shape |-> <<batch_size, 2>>]]

\* lines 200-207: [tf.squeeze(FullyConnectedLayer(prev_layer, ...))], a list of
\* one tensor whatever num_tasks is
RegressorOutput(tensor, in_size, idx) ==
  <<[name |-> "output", index |-> 0, tensor |-> tensor,
     size |-> model_params.layer_sizes[idx + 1],
     weight_shape |-> <<in_size, 1>>,
     stddev |-> model_params.weight_init_stddevs[idx + 1],
     bias_value |-> model_params.bias_init_consts[idx + 1],
     bias_shape |-> <<1>>,
     shape |-> SelectSeq(<<batch_size, 1>>, LAMBDA d : d # 1)]>>

\* lines 119-120 / 200-207: the loop is over, self.output is set.  Had the loop
\* run no iteration, the names layer and i would be unbound (NameError).
BuildOutput ==
  /\ bpc = "loop"
  /\ i + 1 >= num_layers
  /\ IF i >= 0
       THEN /\ self_output' =
                 IF kind = "classifier"
                   THEN MultitaskLogits(layer, num_tasks)
                   ELSE RegressorOutput(prev_layer, prev_layer_size, i)
            /\ bpc' = "done"
            /\ build_error' = build_error
       ELSE /\ build_error' = "NameError"
            /\ bpc' = "failed"
            /\ self_output' = self_output
  /\ UNCHANGED <<mol_features, layers, prev_layer, prev_layer_size, layer, i,
                 num_layers>>
  /\ UNCHANGED <<configVars, restored_model, predictVars, feedVars>>

NextBuild == BuildPlaceholder \/ BuildCheckParams \/ BuildLayer \/ BuildOutput

\* ------------------------------------------------ construct_feed_dict
FeedKeys(nt) ==
  {Key("mol_features", -1), Key("valid", -1)}
    \cup {Key("labels", t) : t \in 0..(nt - 1)}
    \cup {Key("weights", t) : t \in 0..(nt - 1)}

\* lines 136-141 (classifier) / 223-228 (regressor): orig_dict["labels_%d" % task]
LabelsEntry(knd, B, y_b, task) ==
  IF y_b # None
    THEN IF knd = "classifier" THEN to_one_hot(Column(y_b, task))
                               ELSE Column(y_b, task)
    ELSE IF knd = "classifier" THEN squeeze(to_one_hot(zeros(<<B>>)))
                               ELSE squeeze(zeros(<<B>>))

\* lines 142-147 / 229-234: orig_dict["weights_%d" % task]
WeightsEntry(B, w_b, task) ==
  IF w_b # None THEN Column(w_b, task) ELSE ones(<<B>>)

\* a slip for the mask below: np.zeros in place of np.ones
ValidEntry_zeros(B) == Full(<<B>>, FALSE)

\* lines 148 / 235: orig_dict["valid"]
ValidEntry(B) == ones_bool(<<B>>)

\* lines 122-149 / 209-236: the dictionary handed to _get_feed_dict
construct_feed_dict(knd, B, nt, X_b, y_b, w_b, ids_b) ==
  [k \in FeedKeys(nt) |->
     CASE k.name = "mol_features" -> X_b
       [] k.name = "labels" -> LabelsEntry(knd, B, y_b, k.task)
       [] k.name = "weights" -> WeightsEntry(B, w_b, k.task)
       [] k.name = "valid" -> ValidEntry(B)]

\* the batches a caller passes: X_b of shape (batch_size, num_features),
\* y_b and w_b of shape (batch_size, num_tasks), ids_b of length batch_size
XBatch(B, x) == Full(<<B, NumFeatures>>, x)
YBatch(B, nt, s) ==
  [shape |-> <<B, nt>>,
   flat |-> [n \in 1..(B * nt) |-> (s + ((n - 1) \div nt) + ((n - 1) % nt)) % 2]]
WBatch(B, nt, s) ==
  [shape |-> <<B, nt>>,
   flat |-> [n \in 1..(B * nt) |-> (s + 2 * ((n - 1) \div nt) + ((n - 1) % nt)) % 3]]
IdsBatch(B) == [shape |-> <<B>>, flat |-> [n \in 1..B |-> n]]

CallIdle == bpc = "done" /\ pc \in {"idle", "returned", "raised"}

\* a direct call construct_feed_dict(X_b, y_b, w_b, ids_b) on the built model
FeedCall ==
  /\ CallIdle
  /\ \E x \in XVals :
     \E y_b \in {None} \cup {YBatch(batch_size, num_tasks, s) : s \in SeedVals} :
     \E w_b \in {None} \cup {WBatch(batch_size, num_tasks, s) : s \in SeedVals} :
     \E ids_b \in {None, IdsBatch(batch_size)} :
       /\ fd_args' = [X_b |-> XBatch(batch_size, x), y_b |-> y_b, w_b |-> w_b,
                      ids_b |-> ids_b]
       /\ fd_out' = construct_feed_dict(kind, batch_size, num_tasks,
                                        XBatch(batch_size, x), y_b, w_b, ids_b)
  /\ UNCHANGED <<configVars, restored_model, buildVars, predictVars>>

\* -------------------------------------------------- predict_on_batch
\* a slip for the test below: restore() is never called
NeedsRestore_never(flag) == FALSE

\* line 258: if not self._restored_model
NeedsRestore(flag) == ~flag

\* self.restore(): the checkpoint is loaded and the model marked restored
restore == TRUE

\* a slip for the assertion below: the mode is not checked
EvalModeOK_unchecked(is_training) == TRUE

\* line 261: assert not model_ops.is_training()
EvalModeOK(is_training) == ~is_training

\* self.labels / self.weights: one placeholder per task
self_labels == [t \in 1..num_tasks |-> Tensor("labels", t - 1)]
self_weights == [t \in 1..num_tasks |-> Tensor("weights", t - 1)]

\* line 275: the fetch list
Fetches == self_output \o self_labels \o self_weights

\* the value the network computes at an output tensor for input X
ModelValue(x_b, tensor) ==
  [shape |-> tensor.shape,
   flat |-> [n \in 1..Prod(tensor.shape) |->
               100 * x_b.flat[1] + 10 * tensor.index + n]]

\* what session.run returns for one fetch: the computed value of an output
\* tensor, the fed value of a placeholder
Fetch(tensor, x_b, fd) ==
  IF tensor.name = "output" THEN ModelValue(x_b, tensor)
  ELSE fd[Key(tensor.name, tensor.index)]

\* lines 258-259: entry; restore() runs first when the model is not restored
PredictCall ==
  /\ CallIdle
  /\ \E x \in XVals : X' = XBatch(batch_size, x)
  /\ entry_restored' = restored_model
  /\ IF NeedsRestore(restored_model)
       THEN /\ restored_model' = restore
            /\ trace' = <<"restore">>
       ELSE /\ restored_model' = restored_model
            /\ trace' = <<>>
  /\ pc' = "entered"
  /\ feed_dict' = EmptyDict
  /\ data' = <<>>
  /\ batch_output' = None /\ batch_labels' = None /\ batch_weights' = None
  /\ output' = <<>> /\ labels' = <<>> /\ weights' = <<>>
  /\ result' = None
  /\ error' = ""
  /\ UNCHANGED <<configVars, buildVars, feedVars>>

\* lines 260-269: the evaluation-mode assertion passes
PredictCheckEval ==
  /\ pc = "entered"
  /\ EvalModeOK(training)
  /\ pc' = "checked"
  /\ UNCHANGED <<X, feed_dict, data, batch_output, batch_labels, batch_weights,
                 output, labels, weights, result, error, entry_restored, trace>>
  /\ UNCHANGED <<configVars, restored_model, buildVars, feedVars>>

\* line 261: the assertion fails
PredictCheckEvalRaise ==
  /\ pc = "entered"
  /\ ~EvalModeOK(training)
  /\ pc' = "raised"
  /\ error' = "AssertionError"
  /\ UNCHANGED <<X, feed_dict, data, batch_output, batch_labels, batch_weights,
                 output, labels, weights, result, entry_restored, trace>>
  /\ UNCHANGED <<configVars, restored_model, buildVars, feedVars>>

\* line 271: feed_dict = self.construct_feed_dict(X)
PredictFeed ==
  /\ pc = "checked"
  /\ feed_dict' = construct_feed_dict(kind, batch_size, num_tasks, X,
                                      None, None, None)
  /\ trace' = Append(trace, "construct_feed_dict")
  /\ pc' = "fed"
  /\ UNCHANGED <<X, data, batch_output, batch_labels, batch_weights, output,
                 labels, weights, result, error, entry_restored>>
  /\ UNCHANGED <<configVars, restored_model, buildVars, feedVars>>

\* lines 274-276: data = session.run(self.output + self.labels + self.weights)
PredictRun ==
  /\ pc = "fed"
  /\ data' = [n \in 1..Len(Fetches) |-> Fetch(Fetches[n], X, feed_dict)]
  /\ trace' = Append(trace, "run")
  /\ pc' = "ran"
  /\ UNCHANGED <<X, feed_dict, batch_output, batch_labels, batch_weights,
                 output, labels, weights, result, error, entry_restored>>
  /\ UNCHANGED <<configVars, restored_model, buildVars, feedVars>>

\* the three slices of data (lines 277-279)
OutputSlice(d, nt) == Slice(d, 0, nt)
LabelsSlice(d, nt) == Slice(d, nt, nt * 2)
WeightsSlice(d, nt) == Slice(d, nt * 2, nt * 3)

SlicesOK(d, nt) ==
  /\ Homogeneous(OutputSlice(d, nt))
  /\ Homogeneous(LabelsSlice(d, nt))
  /\ Homogeneous(WeightsSlice(d, nt))

\* lines 277-280: the three np.asarray calls
PredictConvert ==
  /\ pc = "ran"
  /\ SlicesOK(data, num_tasks)
  /\ batch_output' = asarray(OutputSlice(data, num_tasks))
  /\ batch_labels' = asarray(LabelsSlice(data, num_tasks))
  /\ batch_weights' = asarray(WeightsSlice(data, num_tasks))
  /\ pc' = "converted"
  /\ UNCHANGED <<X, feed_dict, data, output, labels, weights, result, error,
                 entry_restored, trace>>
  /\ UNCHANGED <<configVars, restored_model, buildVars, feedVars>>

\* lines 277-280: np.asarray rejects a slice whose entries differ in shape
PredictConvertRaise ==
  /\ pc = "ran"
  /\ ~SlicesOK(data, num_tasks)
  /\ pc' = "raised"
  /\ error' = "ValueError"
  /\ UNCHANGED <<X, feed_dict, data, batch_output, batch_labels, batch_weights,
                 output, labels, weights, result, entry_restored, trace>>
  /\ UNCHANGED <<configVars, restored_model, buildVars, feedVars>>

\* a slip for the branch below: the rank-2 case is tested against rank 3 labels
RankBranch_wrong_elif(o, l) ==
  IF ndim(o) = 3 /\ ndim(l) = 3 THEN 3
  ELSE IF ndim(o) = 2 /\ ndim(l) = 3 THEN 2
  ELSE 0

\* lines 282-291: the branch taken; 0 stands for the else branch (ValueError)
RankBranch(o, l) ==
  IF ndim(o) = 3 /\ ndim(l) = 3 THEN 3
  ELSE IF ndim(o) = 2 /\ ndim(l) = 2 THEN 2
  ELSE 0

\* the axes handed to transpose in the branch
Axes(branch) == IF branch = 3 THEN <<1, 0, 2>> ELSE <<1, 0>>

\* lines 282-292 run without an exception
ReshapeOK(o, l, w) ==
  /\ RankBranch(o, l) # 0
  /\ TransposeOK(o, Axes(RankBranch(o, l)))
  /\ TransposeOK(l, Axes(RankBranch(o, l)))
  /\ TransposeOK(w, <<1, 0>>)

\* lines 282-292: reshape to batch_size x num_tasks x ...
PredictReshape ==
  /\ pc = "converted"
  /\ ReshapeOK(batch_output, batch_labels, batch_weights)
  /\ batch_output' = transpose(batch_output,
                               Axes(RankBranch(batch_output, batch_labels)))
  /\ batch_labels' = transpose(batch_labels,
                               Axes(RankBranch(batch_output, batch_labels)))
  /\ batch_weights' = transpose(batch_weights, <<1, 0>>)
  /\ pc' = "reshaped"
  /\ UNCHANGED <<X, feed_dict, data, output, labels, weights, result, error,
                 entry_restored, trace>>
  /\ UNCHANGED <<configVars, restored_model, buildVars, feedVars>>

\* lines 288-291: raise ValueError('Unrecognized rank combination ...')
PredictReshapeRaise ==
  /\ pc = "converted"
  /\ ~ReshapeOK(batch_output, batch_labels, batch_weights)
  /\ pc' = "raised"
  /\ error' = "ValueError"
  /\ UNCHANGED <<X, feed_dict, data, batch_output, batch_labels, batch_weights,
                 output, labels, weights, result, entry_restored, trace>>
  /\ UNCHANGED <<configVars, restored_model, buildVars, feedVars>>

\* line 293: valid = feed_dict[self.valid.name]
valid == feed_dict[Key("valid", -1)]

\* lines 295-298: only take valid outputs
Filter(a, mask) == IF count_nonzero_not(mask) # 0 THEN BoolIndex(a, mask) ELSE a

\* lines 293-301: the validity filter, then the three appends
PredictAppend ==
  /\ pc = "reshaped"
  /\ batch_output' = Filter(batch_output, valid)
  /\ batch_labels' = Filter(batch_labels, valid)
  /\ batch_weights' = Filter(batch_weights, valid)
  /\ output' = Append(output, batch_output')
  /\ labels' = Append(labels, batch_labels')
  /\ weights' = Append(weights, batch_weights')
  /\ pc' = "appended"
  /\ UNCHANGED <<X, feed_dict, data, result, error, entry_restored, trace>>
  /\ UNCHANGED <<configVars, restored_model, buildVars, feedVars>>

\* lines 307-309: labels = np.squeeze(np.concatenate(labels)); return np.copy(labels)
Returned(output_list, labels_list, weights_list) ==
  squeeze(concatenate(labels_list))

PredictReturn ==
  /\ pc = "appended"
  /\ result' = Returned(output, labels, weights)
  /\ pc' = "returned"
  /\ UNCHANGED <<X, feed_dict, data, batch_output, batch_labels, batch_weights,
                 output, labels, weights, error, entry_restored, trace>>
  /\ UNCHANGED <<configVars, restored_model, buildVars, feedVars>>

NextPredict ==
  \/ PredictCall
  \/ PredictCheckEval
  \/ PredictCheckEvalRaise
  \/ PredictFeed
  \/ PredictRun
  \/ PredictConvert
  \/ PredictConvertRaise
  \/ PredictReshape
  \/ PredictReshapeRaise
  \/ PredictAppend
  \/ PredictReturn

\* ------------------------------------------------------ specifications
\* the per-layer lists a caller may configure: layer_sizes over LayerSizeVals,
\* the other three lists identified by position
LayerSizeLists ==
  UNION {[1..n -> LayerSizeVals] : n \in 0..MaxLayers}
StddevList(n) == [k \in 1..n |-> 10 + k]
BiasList(n) == [k \in 1..n |-> 20 + k]
DropoutList(n) == [k \in 1..n |-> 30 + k]
DataShapes == {<<>>, <<NumFeatures>>, <<NumFeatures, NumFeatures>>}

\* every configuration within the bounds
AllParams ==
  {[data_shape |-> ds, batch_size |-> B, layer_sizes |-> ls,
    weight_init_stddevs |-> StddevList(nw), bias_init_consts |-> BiasList(nb),
    dropouts |-> DropoutList(nd)] :
     ds \in DataShapes, B \in 1..MaxBatch, ls \in LayerSizeLists,
     nw \in 0..MaxLayers, nb \in 0..MaxLayers, nd \in 0..MaxLayers}

\* the configurations of the prediction runs: one hidden layer or none, a
\* one- or two-dimensional data_shape
PredictParams ==
  {p \in AllParams :
     /\ Len(p.data_shape) >= 1
     /\ Len(p.layer_sizes) <= 1
     /\ \A v \in 1..Len(p.layer_sizes) : p.layer_sizes[v] = 3
     /\ Len(p.weight_init_stddevs) = Len(p.layer_sizes)
     /\ Len(p.bias_init_consts) = Len(p.layer_sizes)
     /\ Len(p.dropouts) = Len(p.layer_sizes)}

\* the object after __init__, before build()
InitWith(params, flags) ==
  /\ kind \in {"classifier", "regressor"}
  /\ model_params \in params
  /\ num_tasks \in 1..MaxTasks
  /\ training \in flags
  /\ restored_model \in flags
  /\ bpc = "start"
  /\ mol_features = <<>>
  /\ layers = <<>>
  /\ prev_layer = NoTensor
  /\ prev_layer_size = 0
  /\ layer = NoTensor
  /\ i = -1
  /\ num_layers = 0
  /\ self_output = <<>>
  /\ build_error = ""
  /\ pc = "idle"
  /\ X = None
  /\ feed_dict = EmptyDict
  /\ data = <<>>
  /\ batch_output = None /\ batch_labels = None /\ batch_weights = None
  /\ output = <<>> /\ labels = <<>> /\ weights = <<>>
  /\ result = None
  /\ error = ""
  /\ entry_restored = FALSE
  /\ trace = <<>>
  /\ fd_args = [X_b |-> None, y_b |-> None, w_b |-> None, ids_b |-> None]
  /\ fd_out = EmptyDict

\* build() on every configuration
InitBuild == InitWith(AllParams, {FALSE})
SpecBuild == InitBuild /\ [][NextBuild]_vars

\* build(), then construct_feed_dict and predict_on_batch calls in any order
Init == InitWith(PredictParams, BOOLEAN)
Next == NextBuild \/ FeedCall \/ NextPredict
Spec == Init /\ [][Next]_vars

\* ------------------------------------------------------------ claims
\* the arrays np.asarray builds from the fetched data, before the reshape
FetchedOutput == asarray(OutputSlice(data, num_tasks))
FetchedLabels == asarray(LabelsSlice(data, num_tasks))
FetchedWeights == asarray(WeightsSlice(data, num_tasks))

\* a multi-index with its first two entries exchanged
Swap(idx) == <<idx[2], idx[1]>> \o SubSeq(idx, 3, Len(idx))

\* b is a batch-major with respect to the task-major a
BatchMajor(b, a) ==
  /\ ndim(b) = ndim(a)
  /\ ndim(a) >= 2
  /\ b.shape = Swap(a.shape)
  /\ \A idx \in Indices(b.shape) : At(b, idx) = At(a, Swap(idx))

\* the values the network computes for the current input
OutputValues ==
  {ModelValue(X, self_output[k]).flat[m] :
     k \in 1..Len(self_output), m \in 1..Prod(self_output[1].shape)}

\* C1: predict_on_batch(X) returns the model output for X: every element of
\* the returned array is a value fetched for self.output, none is a fetched
\* label or weight.
C1_ReturnsModelOutput ==
  pc = "returned" =>
    /\ result # None
    /\ \A n \in 1..Len(result.flat) : result.flat[n] \in OutputValues

\* the entries construct_feed_dict is said to make for labels_t and weights_t
C2_Labels(l, y_b, t) ==
  IF kind = "classifier"
    THEN /\ l.shape = <<batch_size, 2>>
         /\ \A b \in 0..(batch_size - 1), c \in 0..1 :
              At(l, <<b, c>>) =
                (IF (IF y_b = None THEN 0 ELSE At(y_b, <<b, t>>)) = c THEN 1 ELSE 0)
    ELSE /\ l.shape = <<batch_size>>
         /\ \A b \in 0..(batch_size - 1) :
              At(l, <<b>>) = (IF y_b = None THEN 0 ELSE At(y_b, <<b, t>>))

C2_Weights(w, w_b, t) ==
  /\ w.shape = <<batch_size>>
  /\ \A b \in 0..(batch_size - 1) :
       At(w, <<b>>) = (IF w_b = None THEN 1 ELSE At(w_b, <<b, t>>))

C3_Conditions ==
  /\ Len(model_params.data_shape) = 1
  /\ Len(model_params.layer_sizes) = Len(model_params.weight_init_stddevs)
  /\ Len(model_params.layer_sizes) = Len(model_params.bias_init_consts)
  /\ Len(model_params.layer_sizes) = Len(model_params.dropouts)
  /\ Len(model_params.layer_sizes) # 0

\* C3: when data_shape is not one-dimensional, or the four per-layer lists
\* differ in length, or their common length is 0, build() gets no further than
\* its assertions: it ends in an AssertionError with no hidden layer added and
\* self.output unset; self.output is set only when all three conditions hold.
C3_BuildAsserts ==
  /\ ~C3_Conditions =>
       /\ bpc \in {"start", "params", "failed"}
       /\ layers = <<>>
       /\ self_output = <<>>
  /\ bpc = "failed" => build_error = "AssertionError" /\ ~C3_Conditions
  /\ self_output # <<>> => C3_Conditions

C3_Witness ==
  /\ bpc = "failed"
  /\ build_error = "AssertionError"
  /\ Len(model_params.data_shape) = 1
  /\ Len(model_params.layer_sizes) = 0
  /\ Len(model_params.dropouts) = 0
  /\ Len(model_params.weight_init_stddevs) = 0
  /\ Len(model_params.bias_init_consts) = 0

\* the calls a predict_on_batch call makes when it gets to the session
C4_FullTrace ==
  (IF entry_restored THEN <<>> ELSE <<"restore">>)
    \o <<"construct_feed_dict", "run">>

\* C4 as stated: every predict_on_batch call, however it ends, has called
\* restore() first exactly when _restored_model was false on entry, then
\* constructed the feed dict once and then run the session once.
C4_EveryCallFeedsAndRuns ==
  pc \in {"returned", "raised"} => trace = C4_FullTrace

\* C4 amended: restore() is called first exactly when _restored_model was
\* false on entry; a call that passes the evaluation-mode assertion then
\* constructs the feed dict once and runs the session once, in that order,
\* and a call that fails the assertion does neither.
C4_RestoreFeedRunOrder ==
  pc # "idle" =>
    /\ \E n \in 0..Len(C4_FullTrace) : trace = SubSeq(C4_FullTrace, 1, n)
    /\ pc \in {"entered", "checked"} =>
         trace = (IF entry_restored THEN <<>> ELSE <<"restore">>)
    /\ (pc \in {"ran", "converted", "reshaped", "appended", "returned"}
          \/ (pc = "raised" /\ error = "ValueError")) => trace = C4_FullTrace
    /\ (pc = "raised" /\ error = "AssertionError") =>
         trace = (IF entry_restored THEN <<>> ELSE <<"restore">>)

C4_Witness ==
  /\ pc = "returned"
  /\ ~entry_restored
  /\ trace = <<"restore", "construct_feed_dict", "run">>

\* the fetched output and labels arrays are both 3-d or both 2-d
C5_BothRanks ==
  \/ ndim(FetchedOutput) = 3 /\ ndim(FetchedLabels) = 3
  \/ ndim(FetchedOutput) = 2 /\ ndim(FetchedLabels) = 2

\* C5: once the fetched arrays are built, predict_on_batch goes on to its
\* result only when output and labels are both 3-d or both 2-d, and raises
\* ValueError, with no result, exactly in every other rank combination.
C5_RankValueError ==
  /\ pc \in {"reshaped", "appended", "returned"} => C5_BothRanks
  /\ (pc = "raised" /\ error = "ValueError" /\ batch_output # None) =>
       ~C5_BothRanks /\ result = None

C5_Witness ==
  /\ pc = "raised"
  /\ error = "ValueError"
  /\ ndim(batch_output) = 3
  /\ ndim(batch_labels) = 2
  /\ result = None

\* C6: in training mode a predict_on_batch call ends in an AssertionError,
\* the feed dict is not constructed and the session is not run.
C6_TrainingAsserts ==
  (training /\ pc # "idle") =>
    /\ pc \in {"entered", "raised"}
    /\ pc = "raised" => error = "AssertionError"
    /\ feed_dict = EmptyDict
    /\ data = <<>>
    /\ \A n \in 1..Len(trace) : trace[n] \notin {"construct_feed_dict", "run"}
    /\ result = None

C6_Witness == training /\ pc = "raised" /\ error = "AssertionError"

\* C7: build() stacks num_layers hidden layers, each FullyConnectedLayer,
\* relu, Dropout(dropouts[i]); layer 0 reads mol_features and layer i the
\* output of layer i-1; the weight initialiser of layer i has shape
\* [in_i, layer_sizes[i]] with in_0 = num_features, in_i = layer_sizes[i-1];
\* the output head reads the last hidden layer.
C7_LayerStack ==
  /\ \A k \in 1..Len(layers) :
       /\ layers[k].ops = <<"FullyConnectedLayer", "relu", "Dropout">>
       /\ layers[k].dropout = model_params.dropouts[k]
       /\ layers[k].tensor =
            (IF k = 1 THEN [name |-> "mol_features", index |-> -1]
                      ELSE [name |-> "layer", index |-> k - 2])
       /\ layers[k].weight_shape =
            <<(IF k = 1 THEN model_params.data_shape[1]
                        ELSE model_params.layer_sizes[k - 1]),
              model_params.layer_sizes[k]>>
  /\ bpc = "done" =>
       /\ Len(layers) = Len(model_params.layer_sizes)
       /\ Len(layers) = num_layers
       /\ self_output # <<>>
       /\ \A t \in 1..Len(self_output) :
            self_output[t].tensor = [name |-> "layer", index |-> Len(layers) - 1]

C7_Witness ==
  /\ bpc = "done"
  /\ Len(layers) = 2
  /\ model_params.layer_sizes[1] # model_params.layer_sizes[2]
  /\ model_params.layer_sizes[1] # model_params.data_shape[1]

C9_AllTrue(d) ==
  LET v == d[[name |-> "valid", task |-> -1]]
  IN /\ v.shape = <<batch_size>>
     /\ Len(v.flat) = batch_size
     /\ \A n \in 1..batch_size : v.flat[n] = TRUE

\* C9: the valid mask construct_feed_dict builds is all true and batch_size
\* long whatever the arguments are; so the filter of predict_on_batch removes
\* no row and the arrays it appends each have batch_size rows.
C9_ValidAllTrue ==
  /\ fd_out # EmptyDict => C9_AllTrue(fd_out)
  /\ feed_dict # EmptyDict => C9_AllTrue(feed_dict)
  /\ pc \in {"appended", "returned"} =>
       /\ Len(output) = 1 /\ Len(labels) = 1 /\ Len(weights) = 1
       /\ output[1].shape[1] = batch_size
       /\ labels[1].shape[1] = batch_size
       /\ weights[1].shape[1] = batch_size
       /\ output[1].shape[1] = FetchedOutput.shape[2]
       /\ labels[1].shape[1] = FetchedLabels.shape[2]
       /\ weights[1].shape[1] = FetchedWeights.shape[2]

C9_Witness ==
  /\ pc = "appended"
  /\ fd_out # EmptyDict
  /\ fd_args.y_b # None
  /\ fd_args.w_b # None
  /\ fd_args.ids_b # None

====
